---- MODULE Spec2Model ----
(***************************************************************************)
(* Offline data pipeline of the wearable heart monitor (src/src/prog.ino): *)
(* the fixed-size offline buffer, its mirror in the SPIFFS log file, the   *)
(* boot-time reload and the rate-limited synchronisation pass of loop().   *)
(*                                                                         *)
(* The control loop is modelled step by step (pc), in the order loop()     *)
(* runs its tasks.  A power cycle (Restart) may happen between any two     *)
(* steps: it loses every global and static variable and keeps the file.    *)
(***************************************************************************)
EXTENDS Integers, Sequences, FiniteSets, TLC

\* ------------------------------------------------------------------ bounds
\* Capacity of offlineBuffer.  The firmware uses 1000 (prog.ino:49); the
\* model runs the same code on a small array.
MAX_STORED_READINGS == 2
\* The loop is followed for this many seconds of millis() in each boot.
MaxSeconds == 15
\* No reading is stored once the log file holds this many lines.
MaxLog == 4

\* ------------------------------------------------------- program constants
SENSOR_INTERVAL == 5000
SYNC_INTERVAL == 2000
\* blinkMQTTLED: three times delay(100) + delay(100)
BLINK_TIME == 600
\* testLEDs: six times delay(500), the time setup() takes
SETUP_TIME == 3000

\* Inputs: the readings the DHT22 reports (DhtValid: whether they are
\* numbers; with FALSE added the isnan return of readSensors is explored
\* too) and the time one loop iteration takes, delay(100) and the blocking
\* calls of the iteration together.
Temperatures == {36}
Humidity == 50
DhtValid == {TRUE}
Deltas == {1000}

VARIABLES
  wifiConnected,     \* bool wifiConnected
  lastSensorRead,    \* unsigned long lastSensorRead
  heartRate,         \* int heartRate
  offlineBuffer,     \* SensorData offlineBuffer[MAX_STORED_READINGS]
  bufferIndex,       \* int bufferIndex
  totalStored,       \* int totalStored
  syncIndex,         \* static int syncIndex (syncOfflineData)
  lastSync,          \* static unsigned long lastSync (syncOfflineData)
  file,              \* lines of /sensor_data.json; <<>> when absent or empty
  alertLed,          \* ALERT_LED_PIN
  millis,            \* millis()
  pc,                \* the step of loop() to run next
  lastOp,            \* history: what the last step did
  hist,              \* history: the readings stored since the buffer was empty
  fromEmpty,         \* history: hist starts at an empty buffer
  cleared,           \* history: the last step called clearOfflineData
  prevAttempt,       \* history: millis() at the scheduler's last two publish
  lastAttempt,       \*          attempts of this boot, -1 when none
  pubd,              \* history: the slot's record was published in this boot
  drainMode,         \* environment: the link stays up and no reading is stored
  heartRateCount,    \* int heartRateCount
  heartRateStartTime,\* unsigned long heartRateStartTime, 0 when no window is open
  lastBeat,          \* static unsigned long lastBeat (onHeartBeat)
  tpc,               \* the line of calculateHeartRate to run next
  tnow,              \* calculateHeartRate's local now
  hrOp,              \* history: what the estimator's last step did
  beats,             \* history: the beats of this run, [at, ok] each
  counted,           \* history: the beats that entered a computed rate
  tick0,             \* history: count and window start when the tick began
  tIrq,              \* history: a beat was accepted during the tick
  nDelays            \* history: the number of estimator time steps taken

\* The variables of the offline pipeline, of the estimator, and all.
pipeVars == <<wifiConnected, lastSensorRead, offlineBuffer, bufferIndex,
              totalStored, syncIndex, lastSync, file, alertLed, pc,
              lastOp, hist, fromEmpty, cleared, prevAttempt, lastAttempt,
              pubd, drainMode>>

hrVars == <<heartRateCount, heartRateStartTime, lastBeat, tpc, tnow, hrOp,
            beats, counted, tick0, tIrq, nDelays>>

vars == <<pipeVars, hrVars, heartRate, millis>>

\* ------------------------------------------------------------ data model
SensorData(t, h, hr, ts, s) ==
  [temperature |-> t, humidity |-> h, heartRate |-> hr, timestamp |-> ts, sent |-> s]

\* A global array is zero-initialised.
ZeroData == SensorData(0, 0, 0, 0, FALSE)

Slots == 0 .. MAX_STORED_READINGS - 1

\* The reading without its delivery flag.
Payload(d) == <<d.temperature, d.humidity, d.heartRate, d.timestamp>>

\* ---------------------------------------------------------- the log file
\* saveToSPIFFS writes one JSON object per line; the value of "sent" is the
\* text false or true.
SerializeJson(data) ==
  [wellFormed |-> TRUE,
   temperature |-> data.temperature, humidity |-> data.humidity,
   heartRate |-> data.heartRate, timestamp |-> data.timestamp,
   sent |-> IF data.sent THEN "true" ELSE "false"]

\* A line that is no JSON text (what a write cut short by a power loss, or
\* a damaged block, leaves).  It holds no member at all.
GarbageLine ==
  [wellFormed |-> FALSE, temperature |-> 0, humidity |-> 0, heartRate |-> 0,
   timestamp |-> 0, sent |-> "none"]

\* deserializeJson: a line that does not parse leaves the document empty,
\* and a member of an empty document reads as 0 or false.  The error code
\* deserializeJson returns is not looked at (line 260).
DeserializeJson(line) == IF line.wellFormed THEN line ELSE GarbageLine

\* deserializeJson followed by doc["sent"].as<bool>()
SentOf(line) == DeserializeJson(line).sent = "true"

SaveToSPIFFS(f, data) == Append(f, SerializeJson(data))

\* updateSPIFFSRecord: String::replace rewrites every occurrence of
\* "sent":false in the content, whatever index is.
UpdateSPIFFSRecord(f, index) ==
  [k \in 1 .. Len(f) |->
     IF f[k].sent = "false" THEN [f[k] EXCEPT !.sent = "true"] ELSE f[k]]

\* clearOfflineData: SPIFFS.remove
ClearOfflineData == <<>>

\* loadOfflineData from line k on: the unsent lines fill the buffer from
\* slot 0, until the file ends or the buffer is full.
RECURSIVE LoadLines(_, _, _, _)
LoadLines(f, k, buf, n) ==
  IF k > Len(f) \/ n >= MAX_STORED_READINGS
  THEN [buf |-> buf, totalStored |-> n, bufferIndex |-> n]
  ELSE IF ~SentOf(f[k])
       THEN LET doc == DeserializeJson(f[k]) IN
            LoadLines(f, k + 1,
              [buf EXCEPT ![n] = SensorData(doc.temperature, doc.humidity,
                                            doc.heartRate, doc.timestamp, FALSE)],
              n + 1)
       ELSE LoadLines(f, k + 1, buf, n)

LoadOfflineData(f, buf) == LoadLines(f, 1, buf, 0)

\* ------------------------------------------------------------ the buffer
\* storeData without totalStored++ in the branch that appends.
StoreDataNoCount(buf, bi, ts, data) ==
  IF bi < MAX_STORED_READINGS
  THEN [buf |-> [buf EXCEPT ![bi] = data], bufferIndex |-> bi + 1,
        totalStored |-> ts]
  ELSE [buf |-> [buf EXCEPT ![0] = data], bufferIndex |-> 0,
        totalStored |-> MAX_STORED_READINGS]

\* storeData dropping the reading when the buffer is full.
StoreDataDropWhenFull(buf, bi, ts, data) ==
  IF bi < MAX_STORED_READINGS
  THEN [buf |-> [buf EXCEPT ![bi] = data], bufferIndex |-> bi + 1,
        totalStored |-> ts + 1]
  ELSE [buf |-> buf, bufferIndex |-> 0, totalStored |-> MAX_STORED_READINGS]

\* storeData, lines 216-225.  Callers only pass bi <= MAX_STORED_READINGS.
StoreData(buf, bi, ts, data) ==
  IF bi < MAX_STORED_READINGS
  THEN [buf |-> [buf EXCEPT ![bi] = data], bufferIndex |-> bi + 1,
        totalStored |-> ts + 1]
  ELSE [buf |-> [buf EXCEPT ![0] = data], bufferIndex |-> 0,
        totalStored |-> MAX_STORED_READINGS]

\* The slot storeData writes, lines 217 and 222.
StoreSlot == IF bufferIndex < MAX_STORED_READINGS THEN bufferIndex ELSE 0

\* ------------------------------------------------------ publish and alerts
\* sendDataToCloud fails exactly when wifiConnected is false.
SendDataToCloud(wifi) == wifi

\* checkAlerts lighting the red LED for a high value only.
CheckAlertsHighOnly(data) ==
  \/ data.temperature > 38
  \/ data.heartRate > 120

\* checkAlerts: the red LED is lit for an elevated or high value.
CheckAlerts(data) ==
  \/ data.temperature > 38
  \/ data.temperature > 35
  \/ data.heartRate > 120
  \/ data.heartRate > 100

\* ------------------------------------------------------------- scheduler
\* The rate limit with half the interval.
SyncDueHalf(now, ls) == 2 * (now - ls) >= SYNC_INTERVAL

\* The first condition of syncOfflineData (line 286).
SyncDue(now, ls) == now - ls >= SYNC_INTERVAL

\* The cursor advanced whatever sendDataToCloud returned.
SyncAdvanceAlways(ok, si) == si + 1

\* The cursor after a publish attempt (lines 289-301).
SyncAdvance(ok, si) == IF ok THEN si + 1 ELSE si

\* The reset condition with > for >=.
DrainedStrict(si, ts) == si > ts /\ ts > 0

\* The condition of the full-drain reset (line 307).
Drained(si, ts) == si >= ts /\ ts > 0

\* ---------------------------------------------------------------- Init
\* The estimator's globals and onHeartBeat's static at their initialisers
\* (lines 44, 45 and 184).
HrInit ==
  /\ heartRateCount = 0
  /\ heartRateStartTime = 0
  /\ lastBeat = 0
  /\ tpc = "idle"
  /\ tnow = 0
  /\ hrOp = "none"
  /\ beats = <<>>
  /\ counted = 0
  /\ tick0 = [count |-> 0, start |-> 0]
  /\ tIrq = FALSE
  /\ nDelays = 0

\* The same values after a power cycle.
HrReset ==
  /\ heartRateCount' = 0
  /\ heartRateStartTime' = 0
  /\ lastBeat' = 0
  /\ tpc' = "idle"
  /\ tnow' = 0
  /\ hrOp' = "none"
  /\ beats' = <<>>
  /\ counted' = 0
  /\ tick0' = [count |-> 0, start |-> 0]
  /\ tIrq' = FALSE
  /\ nDelays' = 0

\* The globals' initialisers followed by setup() on a device without a log
\* file: loadOfflineData finds no file, setupWiFi reports the connection.
Init ==
  /\ HrInit
  /\ wifiConnected = TRUE
  /\ lastSensorRead = 0
  /\ heartRate = 0
  /\ offlineBuffer = [i \in Slots |-> ZeroData]
  /\ bufferIndex = 0
  /\ totalStored = 0
  /\ syncIndex = 0
  /\ lastSync = 0
  /\ file = <<>>
  /\ alertLed = FALSE
  /\ millis = SETUP_TIME
  /\ pc = "check"
  /\ lastOp = "boot"
  /\ hist = <<>>
  /\ fromEmpty = TRUE
  /\ cleared = FALSE
  /\ prevAttempt = -1
  /\ lastAttempt = -1
  /\ pubd = [i \in Slots |-> FALSE]
  /\ drainMode = FALSE

\* A power cycle followed by setup(): RAM is lost, the file is kept.
Restart ==
  /\ pc # "ub"
  /\ ~drainMode
  /\ HrReset
  /\ LET ld == LoadOfflineData(file, [i \in Slots |-> ZeroData]) IN
       /\ offlineBuffer' = ld.buf
       /\ totalStored' = ld.totalStored
       /\ bufferIndex' = ld.bufferIndex
       /\ fromEmpty' = (ld.totalStored = 0)
  /\ wifiConnected' = TRUE
  /\ lastSensorRead' = 0
  /\ heartRate' = 0
  /\ syncIndex' = 0
  /\ lastSync' = 0
  /\ alertLed' = FALSE
  /\ millis' = SETUP_TIME
  /\ pc' = "check"
  /\ lastOp' = "boot"
  /\ hist' = <<>>
  /\ cleared' = FALSE
  /\ prevAttempt' = -1
  /\ lastAttempt' = -1
  /\ pubd' = [i \in Slots |-> FALSE]
  /\ drainMode' = FALSE
  /\ UNCHANGED file

\* checkWiFiConnection.  The Wokwi build hard-wires the answer to true; the
\* model lets the connectivity probe report either state of the link.
CheckWiFiConnection ==
  /\ UNCHANGED hrVars
  /\ pc = "check"
  /\ wifiConnected' \in (IF drainMode THEN {TRUE} ELSE BOOLEAN)
  /\ pc' = "read"
  /\ lastOp' = "check"
  /\ cleared' = FALSE
  /\ UNCHANGED <<lastSensorRead, heartRate, offlineBuffer, bufferIndex, totalStored,
                 syncIndex, lastSync, file, alertLed, millis, hist, fromEmpty, prevAttempt, lastAttempt, pubd, drainMode>>

\* loop(), lines 109-112, with readSensors and storeData, the sensor
\* giving one of the temperatures T.
ReadSensorsOf(T) ==
  /\ UNCHANGED hrVars
  /\ pc = "read"
  /\ pc' = "sync"
  /\ cleared' = FALSE
  /\ UNCHANGED <<wifiConnected, heartRate, syncIndex, lastSync, fromEmpty, prevAttempt, lastAttempt,
                 drainMode>>
  /\ IF millis - lastSensorRead >= SENSOR_INTERVAL
     THEN \E valid \in (IF drainMode THEN {FALSE} ELSE DhtValid), t \in T :
            IF ~valid
            THEN \* isnan: nothing is stored
                 /\ lastSensorRead' = millis
                 /\ lastOp' = "nan"
                 /\ UNCHANGED <<offlineBuffer, bufferIndex, totalStored, file,
                                alertLed, millis, hist, pubd>>
            ELSE /\ Len(file) < MaxLog
                 /\ LET data == SensorData(t, Humidity, heartRate, millis, FALSE)
                        st == StoreData(offlineBuffer, bufferIndex, totalStored, data)
                        now == IF SendDataToCloud(wifiConnected)
                               THEN millis + BLINK_TIME ELSE millis
                    IN /\ offlineBuffer' = st.buf
                       /\ bufferIndex' = st.bufferIndex
                       /\ totalStored' = st.totalStored
                       /\ file' = SaveToSPIFFS(file, data)
                       /\ alertLed' = IF SendDataToCloud(wifiConnected)
                                      THEN CheckAlerts(data) ELSE alertLed
                       /\ pubd' = [pubd EXCEPT ![StoreSlot] = SendDataToCloud(wifiConnected)]
                       /\ millis' = now
                       /\ lastSensorRead' = now
                       /\ lastOp' = IF bufferIndex < MAX_STORED_READINGS
                                    THEN "store" ELSE "overflow"
                       /\ hist' = IF Len(hist) <= MAX_STORED_READINGS + 1
                                  THEN Append(hist, Payload(data)) ELSE hist
     ELSE /\ lastOp' = "noread"
          /\ UNCHANGED <<lastSensorRead, offlineBuffer, bufferIndex, totalStored,
                         file, alertLed, millis, hist, pubd>>

ReadSensors == ReadSensorsOf(Temperatures)

\* syncOfflineData, lines 282-314, when its buffer access is in bounds.
SyncOfflineData ==
  LET attempt == SyncDue(millis, lastSync) /\ syncIndex < totalStored
      ok == attempt /\ SendDataToCloud(wifiConnected)
      si == IF attempt THEN SyncAdvance(ok, syncIndex) ELSE syncIndex
      now == IF ok THEN millis + BLINK_TIME ELSE millis
      f1 == IF ok THEN UpdateSPIFFSRecord(file, syncIndex) ELSE file
  IN /\ attempt => syncIndex \in Slots
     /\ UNCHANGED hrVars
     /\ offlineBuffer' = IF ok THEN [offlineBuffer EXCEPT ![syncIndex].sent = TRUE]
                         ELSE offlineBuffer
     /\ alertLed' = IF ok THEN CheckAlerts(offlineBuffer[syncIndex]) ELSE alertLed
     /\ millis' = now
     /\ lastSync' = IF attempt THEN now ELSE lastSync
     /\ prevAttempt' = IF attempt THEN lastAttempt ELSE prevAttempt
     /\ lastAttempt' = IF attempt THEN millis ELSE lastAttempt
     /\ IF Drained(si, totalStored)
        THEN /\ file' = ClearOfflineData
             /\ syncIndex' = 0
             /\ totalStored' = 0
             /\ bufferIndex' = 0
             /\ cleared' = TRUE
             /\ hist' = <<>>
             /\ fromEmpty' = TRUE
             /\ pubd' = [i \in Slots |-> FALSE]
        ELSE /\ file' = f1
             /\ syncIndex' = si
             /\ cleared' = FALSE
             /\ pubd' = IF ok THEN [pubd EXCEPT ![syncIndex] = TRUE] ELSE pubd
             /\ UNCHANGED <<totalStored, bufferIndex, hist, fromEmpty>>
     /\ lastOp' = IF ok THEN "syncOk" ELSE IF attempt THEN "syncFail" ELSE "syncIdle"
     /\ pc' = "delay"
     /\ UNCHANGED <<wifiConnected, lastSensorRead, heartRate, drainMode>>

\* loop(), lines 117-120.
LoopSync ==
  /\ pc = "sync"
  /\ IF wifiConnected /\ totalStored > 0
     THEN SyncOfflineData
     ELSE /\ pc' = "delay"
          /\ lastOp' = "nosync"
          /\ UNCHANGED hrVars
          /\ cleared' = FALSE
          /\ UNCHANGED <<wifiConnected, lastSensorRead, heartRate, offlineBuffer,
                         bufferIndex, totalStored, syncIndex, lastSync, file,
                         alertLed, millis, hist, fromEmpty, prevAttempt, lastAttempt, pubd, drainMode>>

\* syncOfflineData reading and writing offlineBuffer[syncIndex] beyond the
\* array (lines 287 and 291): undefined behaviour, the run is followed no
\* further.
SyncOutOfBounds ==
  /\ UNCHANGED hrVars
  /\ pc = "sync"
  /\ wifiConnected /\ totalStored > 0
  /\ SyncDue(millis, lastSync) /\ syncIndex < totalStored
  /\ syncIndex \notin Slots
  /\ pc' = "ub"
  /\ lastOp' = "oob"
  /\ UNCHANGED <<wifiConnected, lastSensorRead, heartRate, offlineBuffer, bufferIndex,
                 totalStored, syncIndex, lastSync, file, alertLed, millis, hist,
                 fromEmpty, cleared, prevAttempt, lastAttempt, pubd, drainMode>>

\* The run is followed for MaxSeconds, and for the time a drain of the
\* largest totalStored takes once the environment lets the buffer drain.
DrainSeconds == 6 * MAX_STORED_READINGS

TimeLimit ==
  IF drainMode THEN (MaxSeconds + DrainSeconds) * 1000 ELSE MaxSeconds * 1000

\* loop(), line 122, and the time the rest of the iteration took.
Delay ==
  /\ UNCHANGED hrVars
  /\ pc = "delay"
  /\ \E d \in Deltas : /\ millis + d <= TimeLimit
                       /\ millis' = millis + d
  /\ pc' = "check"
  /\ lastOp' = "delay"
  /\ cleared' = FALSE
  /\ UNCHANGED <<wifiConnected, lastSensorRead, heartRate, offlineBuffer, bufferIndex,
                 totalStored, syncIndex, lastSync, file, alertLed, hist, fromEmpty, prevAttempt, lastAttempt, pubd, drainMode>>

\* syncOfflineData called whatever loop()'s condition says: the function
\* on its own, as a caller other than loop() would run it.
CallSync ==
  /\ pc = "sync"
  /\ SyncOfflineData

\* The same pass when it indexes the buffer beyond the array.
CallSyncOutOfBounds ==
  /\ UNCHANGED hrVars
  /\ pc = "sync"
  /\ SyncDue(millis, lastSync) /\ syncIndex < totalStored
  /\ syncIndex \notin Slots
  /\ pc' = "ub"
  /\ lastOp' = "oob"
  /\ UNCHANGED <<wifiConnected, lastSensorRead, heartRate, offlineBuffer, bufferIndex,
                 totalStored, syncIndex, lastSync, file, alertLed, millis, hist,
                 fromEmpty, cleared, prevAttempt, lastAttempt, pubd, drainMode>>

Next ==
  \/ Restart
  \/ CheckWiFiConnection
  \/ ReadSensors
  \/ LoopSync
  \/ SyncOutOfBounds
  \/ Delay

Spec == Init /\ [][Next]_vars

\* The program with syncOfflineData called unconditionally in the loop's
\* third step.
NextCall ==
  \/ Restart
  \/ CheckWiFiConnection
  \/ ReadSensors
  \/ CallSync
  \/ CallSyncOutOfBounds
  \/ Delay

SpecCall == Init /\ [][NextCall]_vars

\* ------------------------------------------------- drain
\* From here on the link stays up, sendDataToCloud succeeds and the sensor
\* gives no valid reading, so that nothing more is stored.
StartDrain ==
  /\ pc = "check"
  /\ ~drainMode
  /\ totalStored > 0
  /\ drainMode' = TRUE
  /\ lastOp' = "startDrain"
  /\ cleared' = FALSE
  /\ UNCHANGED <<wifiConnected, lastSensorRead, heartRate, offlineBuffer,
                 bufferIndex, totalStored, syncIndex, lastSync, file, alertLed,
                 millis, pc, hist, fromEmpty, prevAttempt, lastAttempt, pubd, hrVars>>

NextDrain ==
  \/ Next
  \/ StartDrain

\* loop() runs again and again: each of its steps is taken when it can be.
LoopFairness ==
  /\ WF_vars(CheckWiFiConnection)
  /\ WF_vars(ReadSensors)
  /\ WF_vars(LoopSync)
  /\ WF_vars(SyncOutOfBounds)
  /\ WF_vars(Delay)

SpecDrain == Init /\ [][NextDrain]_vars /\ LoopFairness

\* ------------------------------------------------- boot from a given file
\* The lines a log file is made of here: two unsent readings, a reading
\* already sent and a line that is no JSON.
LoadLineSet ==
  { SerializeJson(SensorData(36, Humidity, 0, 5000, FALSE)),
    SerializeJson(SensorData(36, Humidity, 0, 10000, FALSE)),
    SerializeJson(SensorData(36, Humidity, 0, 8000, TRUE)),
    GarbageLine }

\* The files of at most MaxLoadLen lines.
MaxLoadLen == 3

LogFiles ==
  UNION { [1 .. n -> LoadLineSet] : n \in 0 .. MaxLoadLen }

\* The device switched off, with any of these files in its flash.
InitLoad ==
  /\ HrInit
  /\ file \in LogFiles
  /\ wifiConnected = FALSE
  /\ lastSensorRead = 0
  /\ heartRate = 0
  /\ offlineBuffer = [i \in Slots |-> ZeroData]
  /\ bufferIndex = 0
  /\ totalStored = 0
  /\ syncIndex = 0
  /\ lastSync = 0
  /\ alertLed = FALSE
  /\ millis = 0
  /\ pc = "off"
  /\ lastOp = "off"
  /\ hist = <<>>
  /\ fromEmpty = TRUE
  /\ cleared = FALSE
  /\ prevAttempt = -1
  /\ lastAttempt = -1
  /\ pubd = [i \in Slots |-> FALSE]
  /\ drainMode = FALSE

\* Power on: setup() with loadOfflineData.
SpecLoad == InitLoad /\ [][Restart]_vars

\* ------------------------------------------------- alerts
\* Readings on both sides of the two thresholds of checkAlerts that the
\* claims name.
AlertTemperatures == {35, 36}
AlertHeartRates == {100, 101}

\* The log an earlier run left behind: at most MaxAlertLog unsent readings.
MaxAlertLog == 2

AlertLineSet ==
  { SerializeJson(SensorData(t, Humidity, hr, SENSOR_INTERVAL, FALSE)) :
      t \in AlertTemperatures, hr \in AlertHeartRates }

AlertFiles ==
  UNION { [1 .. n -> AlertLineSet] : n \in 0 .. MaxAlertLog }

\* The device switched off with one of these logs.
InitAlert ==
  /\ HrInit
  /\ file \in AlertFiles
  /\ wifiConnected = FALSE
  /\ lastSensorRead = 0
  /\ heartRate = 0
  /\ offlineBuffer = [i \in Slots |-> ZeroData]
  /\ bufferIndex = 0
  /\ totalStored = 0
  /\ syncIndex = 0
  /\ lastSync = 0
  /\ alertLed = FALSE
  /\ millis = 0
  /\ pc = "off"
  /\ lastOp = "off"
  /\ hist = <<>>
  /\ fromEmpty = TRUE
  /\ cleared = FALSE
  /\ prevAttempt = -1
  /\ lastAttempt = -1
  /\ pubd = [i \in Slots |-> FALSE]
  /\ drainMode = FALSE

\* Power on.
Boot ==
  /\ pc = "off"
  /\ Restart

ReadSensorsAlert == ReadSensorsOf(AlertTemperatures)

NextAlert ==
  \/ Boot
  \/ CheckWiFiConnection
  \/ ReadSensorsAlert
  \/ LoopSync
  \/ SyncOutOfBounds
  \/ Delay

\* One boot from such a log, then the loop with readings around the
\* thresholds.
SpecAlert == InitAlert /\ [][NextAlert]_vars

\* ------------------------------------------------- heart-rate estimator
HEART_RATE_WINDOW == 60000
DEBOUNCE == 200

\* At most MaxBeats beats and MaxHrDelays time steps in a run.
MaxBeats == 5
MaxHrDelays == 5

\* The time between two events of the estimator: a bounce (two of them
\* make the refractory period) and a whole window.
HrDeltas == {100, 60000}

\* onHeartBeat's debounce test, line 188.
AcceptBeatAlways(now, last) == TRUE

AcceptBeat(now, last) == now - last > DEBOUNCE

\* calculateHeartRate's test, line 201.
WindowElapsed(now, start) == start > 0 /\ now - start >= HEART_RATE_WINDOW

\* calculateHeartRate's quotient, line 202: integer division.
BpmRoundedUp(count, elapsed) == (count * 60000 + elapsed - 1) \div elapsed

Bpm(count, elapsed) == (count * 60000) \div elapsed

\* onHeartBeat, lines 183-196.  The interrupt may come between any two
\* lines of calculateHeartRate.
OnHeartBeat ==
  /\ Len(beats) < MaxBeats
  /\ LET now == millis
         ok == AcceptBeat(now, lastBeat)
     IN /\ IF ok
           THEN /\ heartRateCount' = heartRateCount + 1
                /\ lastBeat' = now
                /\ heartRateStartTime' =
                     IF heartRateStartTime = 0 THEN now ELSE heartRateStartTime
           ELSE UNCHANGED <<heartRateCount, lastBeat, heartRateStartTime>>
        /\ beats' = Append(beats, [at |-> now, ok |-> ok])
        /\ hrOp' = IF ok THEN "beat" ELSE "bounce"
        /\ tIrq' = (tIrq \/ (ok /\ tpc # "idle"))
  /\ UNCHANGED <<tpc, tnow, counted, tick0, nDelays, heartRate, millis, pipeVars>>

\* calculateHeartRate, lines 199-201: now and the test.
TickCheck ==
  /\ tpc = "idle"
  /\ hrOp # "skip"
  /\ IF WindowElapsed(millis, heartRateStartTime)
     THEN /\ tpc' = "compute"
          /\ hrOp' = "test"
          /\ tnow' = millis
          /\ tick0' = [count |-> heartRateCount, start |-> heartRateStartTime]
     ELSE /\ tpc' = "idle"
          /\ hrOp' = "skip"
          /\ UNCHANGED <<tnow, tick0>>
  /\ UNCHANGED <<tIrq, heartRateCount, heartRateStartTime, lastBeat, beats, counted,
                 nDelays, heartRate, millis, pipeVars>>

\* line 202.
TickCompute ==
  /\ tpc = "compute"
  /\ heartRate' = Bpm(heartRateCount, tnow - heartRateStartTime)
  /\ counted' = counted + heartRateCount
  /\ tpc' = "resetCount"
  /\ hrOp' = "compute"
  /\ UNCHANGED <<heartRateCount, heartRateStartTime, lastBeat, tnow, beats,
                 tick0, tIrq, nDelays, millis, pipeVars>>

\* line 205.
TickResetCount ==
  /\ tpc = "resetCount"
  /\ heartRateCount' = 0
  /\ tpc' = "resetStart"
  /\ hrOp' = "resetCount"
  /\ UNCHANGED <<heartRateStartTime, lastBeat, tnow, beats, counted, tick0,
                 tIrq, nDelays, heartRate, millis, pipeVars>>

\* line 206, and the return.
TickResetStart ==
  /\ tpc = "resetStart"
  /\ heartRateStartTime' = 0
  /\ tpc' = "idle"
  /\ hrOp' = "tick"
  /\ tnow' = 0
  /\ tick0' = [count |-> 0, start |-> 0]
  /\ tIrq' = FALSE
  /\ UNCHANGED <<heartRateCount, lastBeat, beats, counted, nDelays, heartRate,
                 millis, pipeVars>>

\* Time passing between two iterations of loop().
HrDelay ==
  /\ tpc = "idle"
  /\ nDelays < MaxHrDelays
  /\ \E d \in HrDeltas : millis' = millis + d
  /\ nDelays' = nDelays + 1
  /\ hrOp' = "delay"
  /\ UNCHANGED <<heartRateCount, heartRateStartTime, lastBeat, tpc, tnow, beats,
                 counted, tick0, tIrq, heartRate, pipeVars>>

NextHR ==
  \/ OnHeartBeat
  \/ TickCheck
  \/ TickCompute
  \/ TickResetCount
  \/ TickResetStart
  \/ HrDelay

\* The estimator on its own: beats, ticks and time.
SpecHR == Init /\ [][NextHR]_vars

\* ================================================================ claims

\* C1: in every reachable state the write cursor and totalStored are both
\* at most the capacity.
C1_CountWithinCapacity ==
  /\ bufferIndex <= MAX_STORED_READINGS
  /\ totalStored <= MAX_STORED_READINGS

\* The number of lines of f still marked unsent.
RECURSIVE UnsentLines(_)
UnsentLines(f) ==
  IF f = <<>> THEN 0
  ELSE (IF SentOf(Head(f)) THEN 0 ELSE 1) + UnsentLines(Tail(f))

\* C2: a restart reloads every buffer entry that was unsent just before
\* it, whenever the log holds no more unsent lines than the capacity.
C2_UnsentSurviveRestart ==
  [][(Restart /\ UnsentLines(file) <= MAX_STORED_READINGS) =>
       \A i \in Slots :
         (i < totalStored /\ ~offlineBuffer[i].sent) =>
           \E j \in Slots : j < totalStored' /\ offlineBuffer'[j] = offlineBuffer[i]]_vars

\* C3: every buffer entry at a logical index below syncIndex is marked
\* sent.
C3_SentBelowSyncIndex ==
  \A i \in Slots : i < syncIndex => offlineBuffer[i].sent

\* C4: after n <= capacity stores into an empty buffer, totalStored is n
\* and slot i holds the (i+1)-th reading stored.
C4_InsertionOrder ==
  (fromEmpty /\ Len(hist) <= MAX_STORED_READINGS) =>
    /\ totalStored = Len(hist)
    /\ \A i \in 0 .. Len(hist) - 1 : Payload(offlineBuffer[i]) = hist[i + 1]

C4_Witness ==
  /\ fromEmpty
  /\ Len(hist) = MAX_STORED_READINGS
  /\ lastOp = "store"

\* C5: after capacity+1 stores into an empty buffer, slot 0 holds the last
\* reading stored, slots 1..capacity-1 hold the readings stored into them
\* and totalStored is the capacity.
C5_OverwriteSlotZero ==
  (fromEmpty /\ Len(hist) = MAX_STORED_READINGS + 1) =>
    /\ Payload(offlineBuffer[0]) = hist[MAX_STORED_READINGS + 1]
    /\ \A i \in 1 .. MAX_STORED_READINGS - 1 : Payload(offlineBuffer[i]) = hist[i + 1]
    /\ totalStored = MAX_STORED_READINGS

C5_Witness ==
  /\ fromEmpty
  /\ Len(hist) = MAX_STORED_READINGS + 1
  /\ lastOp = "overflow"

\* The cursor a pass holds when it reaches the reset condition.
CursorAfter == IF lastOp' = "syncOk" THEN syncIndex + 1 ELSE syncIndex

\* C6: a scheduler pass that finds syncIndex >= totalStored > 0 removes the
\* log and leaves syncIndex, totalStored and the write cursor at 0; with
\* totalStored = 0 the pass changes none of them.
C6_FullDrainResets ==
  [][LoopSync =>
       IF lastOp' # "nosync" /\ CursorAfter >= totalStored /\ totalStored > 0
       THEN file' = <<>> /\ syncIndex' = 0 /\ totalStored' = 0 /\ bufferIndex' = 0
       ELSE totalStored = 0 =>
              UNCHANGED <<file, syncIndex, totalStored, bufferIndex>>]_vars

C6_Witness ==
  /\ cleared
  /\ lastOp = "syncOk"
  /\ file = <<>> /\ syncIndex = 0 /\ totalStored = 0 /\ bufferIndex = 0

\* C7: whenever the log is cleared, every buffer entry below totalStored
\* is marked sent and no line of the log is still unsent.
C7_ClearOnlyWhenDrained ==
  [][cleared' =>
       /\ \A i \in Slots : i < totalStored => offlineBuffer'[i].sent
       /\ lastOp' # "syncOk" => UnsentLines(file) = 0]_vars

\* C8: a publish attempt of the scheduler that fails leaves syncIndex,
\* totalStored, the buffer and the log unchanged and sets lastSync to the
\* time of the attempt.
C8_FailedPublishKeepsState ==
  [][lastOp' = "syncFail" =>
       /\ UNCHANGED <<syncIndex, totalStored, offlineBuffer, file, bufferIndex>>
       /\ lastSync' = millis'
       /\ syncIndex' < totalStored']_vars

C8_Witness ==
  /\ lastOp = "syncFail"
  /\ lastSync = millis
  /\ ~offlineBuffer[syncIndex].sent

\* C9: the scheduler attempts a publish only when connected, at least
\* 2000 ms after lastSync and with syncIndex < totalStored; two consecutive
\* attempts are at least 2000 ms apart.
C9_RateLimitedAttempts ==
  [][lastOp' \in {"syncOk", "syncFail"} =>
       /\ wifiConnected
       /\ millis - lastSync >= SYNC_INTERVAL
       /\ syncIndex < totalStored
       /\ lastAttempt # -1 => millis - lastAttempt >= SYNC_INTERVAL]_vars

C9_Witness ==
  /\ lastOp = "syncOk"
  /\ prevAttempt # -1
  /\ lastAttempt - prevAttempt >= SYNC_INTERVAL

\* markSent as the claim states it: the first line still unsent becomes
\* sent, every other line stays.
RECURSIVE MarkFirstUnsent(_)
MarkFirstUnsent(f) ==
  IF f = <<>> THEN <<>>
  ELSE IF ~SentOf(Head(f))
       THEN <<[Head(f) EXCEPT !.sent = "true"]>> \o Tail(f)
       ELSE <<Head(f)>> \o MarkFirstUnsent(Tail(f))

\* C10: a successful markSent changes exactly the first unsent line of the
\* log and no other line.
C10_MarkSentChangesOneLine ==
  [][(lastOp' = "syncOk" /\ ~cleared') => file' = MarkFirstUnsent(file)]_vars

\* The well-formed lines of f still unsent, in file order.
RECURSIVE UnsentWellFormed(_)
UnsentWellFormed(f) ==
  IF f = <<>> THEN <<>>
  ELSE (IF Head(f).wellFormed /\ Head(f).sent = "false" THEN <<Head(f)>> ELSE <<>>)
       \o UnsentWellFormed(Tail(f))

\* C11: after loadOfflineData the buffer holds the unsent well-formed
\* lines of the file, in order and up to the capacity, and nothing else: a
\* malformed line gives no entry and does not count in totalStored.
C11_MalformedLineSkipped ==
  lastOp = "boot" =>
    LET want == UnsentWellFormed(file)
        n == IF Len(want) < MAX_STORED_READINGS THEN Len(want)
             ELSE MAX_STORED_READINGS
    IN /\ totalStored = n
       /\ \A i \in 0 .. n - 1 :
            Payload(offlineBuffer[i]) = Payload(want[i + 1])

\* The beats of the run accepted so far.
AcceptedBeats == {i \in 1 .. Len(beats) : beats[i].ok}

\* C12: a beat is ignored exactly when it comes less than 200 ms after the
\* previous accepted beat: a beat 200 ms or more after it (or with no
\* accepted beat before it) increments heartRateCount, any other beat
\* leaves heartRateCount, heartRateStartTime and lastBeat unchanged.
C12_IgnoredIffWithinRefractory ==
  [][Len(beats') = Len(beats) + 1 =>
       IF AcceptedBeats = {} \/ millis - lastBeat >= DEBOUNCE
       THEN heartRateCount' = heartRateCount + 1
       ELSE UNCHANGED <<heartRateCount, heartRateStartTime, lastBeat>>]_vars

\* The beats k .. k+4 of the run, when there are that many.
Bursts == {k \in 1 .. Len(beats) : k + 4 <= Len(beats)}

AcceptedIn(k) == {i \in k .. k + 4 : beats[i].ok}

\* C13: five beats in a row, each less than 200 ms after the one before,
\* yield exactly one accepted beat.
C13_BurstYieldsOne ==
  \A k \in Bursts :
    (\A i \in k .. k + 3 : beats[i + 1].at - beats[i].at < DEBOUNCE)
      => Cardinality(AcceptedIn(k)) = 1

\* C13 as the code has it: five beats in a row yield exactly one accepted
\* beat, the first, when the first is accepted and the four others come
\* less than 200 ms after it.
C13_BurstWithinRefractory ==
  \A k \in Bursts :
    (beats[k].ok /\ \A i \in k + 1 .. k + 4 : beats[i].at - beats[k].at < DEBOUNCE)
      => AcceptedIn(k) = {k}

\* Five beats within 100 ms, the first one accepted.
C13_Witness ==
  /\ Len(beats) = 5
  /\ beats[1].ok
  /\ beats[5].at - beats[1].at = 100
  /\ AcceptedIn(1) = {1}

\* C14: calculateHeartRate computes a rate if and only if a window is open
\* (heartRateStartTime set) and now - heartRateStartTime >= 60000; the rate
\* is heartRateCount * 60000 / (now - heartRateStartTime) in integer
\* division, and heartRateCount and heartRateStartTime are then reset to 0;
\* otherwise the call changes neither of them nor heartRate.  The call is
\* taken on its own, with no beat accepted while it runs.
C14_TickContract ==
  [][/\ hrOp' = "skip" =>
          /\ ~(heartRateStartTime > 0 /\ millis - heartRateStartTime >= 60000)
          /\ UNCHANGED <<heartRateCount, heartRateStartTime, heartRate>>
     /\ hrOp' = "test" =>
          (heartRateStartTime > 0 /\ millis - heartRateStartTime >= 60000)
     /\ (hrOp' = "tick" /\ ~tIrq) =>
          /\ heartRate' = (tick0.count * 60000) \div (tnow - tick0.start)
          /\ heartRateCount' = 0
          /\ heartRateStartTime' = 0]_vars

\* A call that computed the rate of 2 beats in 60300 ms: 1, not 2.
C14_Witness ==
  /\ hrOp = "tick"
  /\ counted = 2
  /\ heartRate = 1
  /\ heartRateCount = 0
  /\ heartRateStartTime = 0

\* C15: under every interleaving of onHeartBeat with calculateHeartRate no
\* accepted beat is lost (each one is counted in one computed rate or is
\* still in heartRateCount), and whenever no call of calculateHeartRate is
\* in progress heartRateCount > 0 implies heartRateStartTime is set.
C15_InterruptSafe ==
  tpc = "idle" =>
    /\ Cardinality(AcceptedBeats) = counted + heartRateCount
    /\ heartRateCount > 0 => heartRateStartTime > 0

\* C16: after every successful publish, at the reading or by the
\* scheduler, the alert LED is on if and only if the published record has
\* temperature > 35 or heartRate > 100; a reading stored without being
\* published leaves the LED as it was.
C16_AlertAfterPublish ==
  [][/\ (lastOp' \in {"store", "overflow"} /\ wifiConnected) =>
          LET r == offlineBuffer'[StoreSlot] IN
            alertLed' = (r.temperature > 35 \/ r.heartRate > 100)
     /\ (lastOp' \in {"store", "overflow"} /\ ~wifiConnected) =>
          alertLed' = alertLed
     /\ lastOp' = "syncOk" =>
          LET r == offlineBuffer[syncIndex] IN
            alertLed' = (r.temperature > 35 \/ r.heartRate > 100)]_vars

\* The scheduler has just published a record whose heart rate alone is
\* above its threshold, and the LED is on.
C16_Witness ==
  /\ lastOp = "syncOk"
  /\ syncIndex > 0
  /\ offlineBuffer[syncIndex - 1].temperature = 35
  /\ offlineBuffer[syncIndex - 1].heartRate = 101
  /\ alertLed

\* C17: the log never holds more lines than the buffer has slots.
C17_LogWithinCapacity == Len(file) <= MAX_STORED_READINGS

\* C18: between two restarts no record is published twice: the scheduler
\* never publishes a record that was already published, at its reading or
\* by an earlier pass.
C18_PublishedOnce ==
  [][lastOp' = "syncOk" => ~pubd[syncIndex]]_vars

\* C20: the cursor stays within 0 .. totalStored and no step indexes the
\* buffer outside 0 .. MAX_STORED_READINGS - 1.
C20_AccessInBounds ==
  /\ 0 <= syncIndex
  /\ syncIndex <= totalStored
  /\ bufferIndex \in 0 .. MAX_STORED_READINGS
  /\ pc # "ub"

\* The run has reached its time limit.
TimeUp == \A d \in Deltas : millis + d > TimeLimit

====
